---- MODULE Spec2Model ----
(***************************************************************************)
(* A model of UA_Monthly.py: the monthly Universal Analytics pull.         *)
(*                                                                         *)
(* The program is one sequential process.  Its state is the local state of *)
(* main (the month loop, the property loop, the four responses, the        *)
(* merged frame and the accumulated frame), the local state of the fetch   *)
(* that is running (retries, max_retries), and what it has shown to the    *)
(* outside: the lines printed by the running fetch, the sleeps it took,    *)
(* the API calls it made and the tables handed to to_csv.                  *)
(*                                                                         *)
(* Python values are modelled as records: None is [py |-> "None"], a dict  *)
(* is a record with a field keys (the keys that are present) and one field *)
(* per key it may hold, so that d.get(k, default) and "k in d" are         *)
(* computed as in the code.  A pandas frame is [columns, rows]; a cell is  *)
(* a text value, the number 0 written by fillna, or NaN.                   *)
(***************************************************************************)
EXTENDS FiniteSets, Integers, Sequences, TLC

VARIABLES
    pc,              \* position of the process in main / in the harness
    curr_date,       \* main: curr_date
    run_start,       \* main: start_date, the start of the whole pull
    run_end,         \* main: end_date, the end of the whole pull
    month_end_date,  \* main: month_end_date
    ids,             \* main: the list fetch_ids() returned for this month
    idx,             \* main: how many entries of ids the for loop has taken
    domain,          \* main: domain of the current property
    view_id,         \* main: view_id of the current property
    start_date_str,  \* main: start_date_str
    end_date_str,    \* main: end_date_str
    kind,            \* which of the four fetch functions is running
    retries,         \* get_*report*: retries
    max_retries,     \* get_*report*: max_retries
    responses,       \* main: the four *_response variables, by fetch function
    df_combined,     \* main: df_combined
    accumulated_df,  \* main: accumulated_df
    csv,             \* the tables written by to_csv, in order
    fetch_log,       \* lines printed by the running fetch call
    sleeps,          \* the time.sleep arguments of the running fetch call
    attempts,        \* batchGet(...).execute() calls of the running fetch call
    outcomes,        \* what each of those calls did: "ok" or the error raised
    api_reply,       \* what the last successful execute() returned
    exc,             \* the exception that left the running call, or None
    ga_rows,         \* environment: rows the API holds per fetch function
    periods,         \* the (curr_date, month_end_date) pairs the loop visited
    listed,          \* the lists fetch_ids() returned, one per month
    progress,        \* the 'Running Current Date' lines printed, in order
    succ_pairs,      \* pairs whose organic and total responses were not None
    nz_in,           \* harness: the response handed to write_to_df
    nz_out,          \* harness: what write_to_df returned (or that it raised)
    dataset,         \* harness: the rows of the view a filter clause is applied to
    selected,        \* harness: the rows each get_*_filter() clause list selects
    api_calls        \* observer: the execute() calls made for the current property
                     \* and month, in order, where the run records them

vars == <<pc, curr_date, run_start, run_end, month_end_date, ids, idx, domain, view_id,
          start_date_str, end_date_str, kind, retries, max_retries, responses,
          df_combined, accumulated_df, csv, fetch_log, sleeps, attempts,
          outcomes, api_reply, exc, ga_rows, periods, listed, progress, succ_pairs,
          nz_in, nz_out,
                   dataset, selected, api_calls>>

(***************************************************************************)
(* Bounds of the model.                                                    *)
(***************************************************************************)
\* months of the date span a modelled run covers
NumMonths == 2
\* longest list fetch_ids may return
MaxProps == 2
\* most rows the API returns in one report
MaxRows == 2
\* largest max_retries a fetch is called with by the fetch harness
MaxRetriesArg == 3
\* SpecMonths: years after the start year that start and end dates range over
YearSpan == 4
\* SpecNormalize: most reports in one response
MaxReports == 2

(***************************************************************************)
(* Python values.                                                          *)
(***************************************************************************)
None == [py |-> "None"]

\* d.get(k, default) on a dict record
Get(d, k, default) == IF k \in d.keys THEN d[k] ELSE default

\* str(int), zero padded to two digits as strftime's %m and %d do
Pad2(n) == IF n < 10 THEN "0" \o ToString(n) ELSE ToString(n)

(***************************************************************************)
(* datetime.date, calendar.monthrange, relativedelta(months=1), strftime.  *)
(***************************************************************************)
Date(y, m, d) == [year |-> y, month |-> m, day |-> d]

\* date <= date
DateLE(a, b) ==
    \/ a.year < b.year
    \/ a.year = b.year /\ a.month < b.month
    \/ a.year = b.year /\ a.month = b.month /\ a.day <= b.day

\* calendar.isleap
IsLeap(y) == y % 4 = 0 /\ (y % 100 # 0 \/ y % 400 = 0)

\* calendar.mdays
MDays == <<31, 28, 31, 30, 31, 30, 31, 31, 30, 31, 30, 31>>

\* calendar.monthrange(year, month)[1]
MonthRange_Feb28(y, m) == MDays[m]
MonthRange(y, m) == MDays[m] + (IF m = 2 /\ IsLeap(y) THEN 1 ELSE 0)

Min(a, b) == IF a < b THEN a ELSE b
Max(a, b) == IF a > b THEN a ELSE b

\* date + relativedelta(months=1): next month, the day clamped to its length
AddMonth_SameYear(d) ==
    LET m == IF d.month = 12 THEN 1 ELSE d.month + 1
    IN  Date(d.year, m, Min(d.day, MonthRange(d.year, m)))
AddMonth_Two(d) ==
    LET n == d.year * 12 + (d.month - 1) + 2
    IN  Date(n \div 12, (n % 12) + 1, Min(d.day, MonthRange(n \div 12, (n % 12) + 1)))
AddMonth(d) ==
    LET y == IF d.month = 12 THEN d.year + 1 ELSE d.year
        m == IF d.month = 12 THEN 1 ELSE d.month + 1
    IN  Date(y, m, Min(d.day, MonthRange(y, m)))

\* date.strftime('%Y-%m-%d')
Strftime(d) == ToString(d.year) \o "-" \o Pad2(d.month) \o "-" \o Pad2(d.day)

\* main: start_date = datetime.date(2019, 1, 1)
start_date == Date(2019, 1, 1)

\* main: end_date, cut to the NumMonths months the model runs
RunEnd ==
    LET n == (start_date.month - 1) + (NumMonths - 1)
        y == start_date.year + (n \div 12)
        m == (n % 12) + 1
    IN  Date(y, m, MonthRange(y, m))

(***************************************************************************)
(* Python text, dicts and lists.                                           *)
(***************************************************************************)
\* a str value
PyStr(s) == [py |-> "str", s |-> s]

\* str(v), for v a str or None
Str(v) == IF v.py = "None" THEN "None" ELSE v.s

\* {}
EmptyDict == [py |-> "dict", keys |-> {}]

\* the concatenation of a list of lists
RECURSIVE Flatten(_)
Flatten(ss) == IF ss = <<>> THEN <<>> ELSE Head(ss) \o Flatten(Tail(ss))

\* the largest len() among a non-empty list of lists
RECURSIVE MaxLen(_)
MaxLen(ss) == IF ss = <<>> THEN 0 ELSE Max(Len(Head(ss)), MaxLen(Tail(ss)))

\* position of the first n in a list of names, 0 if absent
IndexOf(names, n) ==
    IF \A i \in 1..Len(names) : names[i] # n THEN 0
    ELSE CHOOSE i \in 1..Len(names) :
            names[i] = n /\ \A j \in 1..(i - 1) : names[j] # n

Range(s) == {s[i] : i \in 1..Len(s)}

\* the entries of s that satisfy Keep, in order
RECURSIVE SelectIdx(_, _)
SelectIdx(s, keep) ==
    IF s = <<>> THEN <<>>
    ELSE (IF keep[1] THEN <<Head(s)>> ELSE <<>>)
         \o SelectIdx(Tail(s), [i \in 1..(Len(s) - 1) |-> keep[i + 1]])

(***************************************************************************)
(* pandas frames: [columns |-> names, rows |-> list of lists of cells].    *)
(***************************************************************************)
\* a missing cell
NaN == [py |-> "nan", s |-> ""]

\* the number 0
Int0 == [py |-> "int", s |-> "0"]

\* pd.DataFrame()
EmptyDF == [columns |-> <<>>, rows |-> <<>>]

\* what a call returns: a frame, or the fact that it raised
Returned(df) == [raised |-> FALSE, df |-> df]
Raised == [raised |-> TRUE, df |-> EmptyDF]

\* pd.DataFrame(all_rows, columns=columns): no rows give an empty frame with
\* the columns; otherwise short rows are padded to the longest one and the
\* constructor raises ValueError unless that length is len(columns)
DataFrame_Unchecked(all_rows, columns) ==
    Returned([columns |-> columns,
              rows |-> [i \in 1..Len(all_rows) |->
                          all_rows[i] \o [j \in 1..(MaxLen(all_rows) - Len(all_rows[i])) |-> NaN]]])
DataFrame(all_rows, columns) ==
    IF all_rows = <<>> THEN Returned([columns |-> columns, rows |-> <<>>])
    ELSE IF MaxLen(all_rows) # Len(columns) THEN Raised
    ELSE Returned([columns |-> columns,
                   rows |-> [i \in 1..Len(all_rows) |->
                               all_rows[i] \o [j \in 1..(Len(columns) - Len(all_rows[i])) |-> NaN]]])

\* df.rename(columns={"ga:users": users, "ga:sessions": sessions}, inplace=True)
Rename(df, users, sessions) ==
    [df EXCEPT !.columns =
        [i \in 1..Len(df.columns) |->
            IF df.columns[i] = "ga:users" THEN users
            ELSE IF df.columns[i] = "ga:sessions" THEN sessions
            ELSE df.columns[i]]]

\* df[name] = value, for a scalar value
SetColumn(df, name, value) ==
    LET k == IndexOf(df.columns, name)
    IN  IF k = 0
        THEN [columns |-> Append(df.columns, name),
              rows |-> [i \in 1..Len(df.rows) |-> Append(df.rows[i], value)]]
        ELSE [df EXCEPT !.rows =
                [i \in 1..Len(df.rows) |-> [df.rows[i] EXCEPT ![k] = value]]]

\* row without its k-th cell
DropCell(row, k) == SubSeq(row, 1, k - 1) \o SubSeq(row, k + 1, Len(row))

\* pd.merge(left, right, on=[key], how="left"): the left columns, then the
\* right columns other than the key; a name on both sides gets _x and _y;
\* every left row once per right row with the same key, in right order, or
\* once with missing cells when no right row has its key
Merge_Inner(left, right, key) ==
    LET lk == IndexOf(left.columns, key)
        rk == IndexOf(right.columns, key)
        rcols == DropCell(right.columns, rk)
        RowsFor(l) ==
            LET hit == [j \in 1..Len(right.rows) |-> right.rows[j][rk] = l[lk]]
                m == SelectIdx(right.rows, hit)
            IN  [j \in 1..Len(m) |-> l \o DropCell(m[j], rk)]
    IN  [columns |-> left.columns \o rcols,
         rows |-> Flatten([i \in 1..Len(left.rows) |-> RowsFor(left.rows[i])])]
Merge(left, right, key) ==
    LET lk == IndexOf(left.columns, key)
        rk == IndexOf(right.columns, key)
        rcols == DropCell(right.columns, rk)
        both == (Range(left.columns) \cap Range(rcols)) \ {key}
        lnames == [i \in 1..Len(left.columns) |->
                     IF left.columns[i] \in both THEN left.columns[i] \o "_x"
                     ELSE left.columns[i]]
        rnames == [i \in 1..Len(rcols) |->
                     IF rcols[i] \in both THEN rcols[i] \o "_y" ELSE rcols[i]]
        RowsFor(l) ==
            LET hit == [j \in 1..Len(right.rows) |-> right.rows[j][rk] = l[lk]]
                m == SelectIdx(right.rows, hit)
            IN  IF m = <<>> THEN <<l \o [j \in 1..Len(rcols) |-> NaN]>>
                ELSE [j \in 1..Len(m) |-> l \o DropCell(m[j], rk)]
    IN  [columns |-> lnames \o rnames,
         rows |-> Flatten([i \in 1..Len(left.rows) |-> RowsFor(left.rows[i])])]

\* df.fillna(0, inplace=True)
Fillna_Nothing(df) == df
Fillna(df) ==
    [df EXCEPT !.rows =
        [i \in 1..Len(df.rows) |->
            [j \in 1..Len(df.rows[i]) |->
                IF df.rows[i][j].py = "nan" THEN Int0 ELSE df.rows[i][j]]]]

\* pd.concat([a, b], ignore_index=True): the columns of a, then those only b
\* has; the rows of a, then the rows of b, with missing cells where a frame
\* lacks a column
Concat_Replace(a, b) == b
Concat(a, b) ==
    LET extra == SelectIdx(b.columns,
                           [i \in 1..Len(b.columns) |-> b.columns[i] \notin Range(a.columns)])
        cols == a.columns \o extra
        Fit(df, row) ==
            [j \in 1..Len(cols) |->
                IF IndexOf(df.columns, cols[j]) = 0 THEN NaN
                ELSE row[IndexOf(df.columns, cols[j])]]
    IN  [columns |-> cols,
         rows |-> [i \in 1..Len(a.rows) |-> Fit(a, a.rows[i])]
                  \o [i \in 1..Len(b.rows) |-> Fit(b, b.rows[i])]]

(***************************************************************************)
(* write_to_df.                                                            *)
(***************************************************************************)
\* write_to_df: response is None or 'reports' not in response
InvalidResponse_Unguarded(response) == FALSE
InvalidResponse(response) ==
    response.py = "None" \/ "reports" \notin response.keys

\* write_to_df: columns of one report
ReportColumns(report) ==
    LET column_header == Get(report, "columnHeader", EmptyDict)
        dimension_headers == Get(column_header, "dimensions", <<>>)
        entries == Get(Get(column_header, "metricHeader", EmptyDict),
                       "metricHeaderEntries", <<>>)
        metric_headers == [i \in 1..Len(entries) |-> Get(entries[i], "name", None)]
    IN  dimension_headers \o metric_headers

\* write_to_df: row_data of one row
RowData_MetricsFirst(row) ==
    LET dimensions == Get(row, "dimensions", <<>>)
        ms == Get(row, "metrics", <<>>)
        metrics == Flatten([i \in 1..Len(ms) |-> Get(ms[i], "values", <<>>)])
    IN  metrics \o dimensions
RowData(row) ==
    LET dimensions == Get(row, "dimensions", <<>>)
        ms == Get(row, "metrics", <<>>)
        metrics == Flatten([i \in 1..Len(ms) |-> Get(ms[i], "values", <<>>)])
    IN  dimensions \o metrics

\* write_to_df: the rows one report adds to all_rows
ReportRows(report) ==
    LET rows == Get(Get(report, "data", EmptyDict), "rows", <<>>)
    IN  [i \in 1..Len(rows) |-> RowData(rows[i])]

\* write_to_df(response); a response that is None and passes the guard
\* raises at response.get
WriteToDf(response) ==
    IF InvalidResponse(response) THEN Returned(EmptyDF)
    ELSE IF response.py = "None" THEN Raised
    ELSE LET reports == Get(response, "reports", <<>>)
             all_rows == Flatten([i \in 1..Len(reports) |-> ReportRows(reports[i])])
             last == IF reports = <<>> THEN <<>>
                     ELSE ReportColumns(reports[Len(reports)])
             columns == [i \in 1..Len(last) |-> Str(last[i])]
         IN  DataFrame(all_rows, columns)

(***************************************************************************)
(* The environment: the property table and the Reporting API.              *)
(***************************************************************************)
\* one row of the property table: (domain, view_id)
Property(i) == <<"site" \o ToString(i) \o ".com", ToString(122 + i)>>

\* the lists fetch_ids() may return when it is called
PropertyLists == {[i \in 1..n |-> Property(i)] : n \in 0..MaxProps}

\* the four fetch functions, in the order main calls them
FetchOrder_TotalFirst == <<"total", "organic", "organic_filtered", "total_filtered">>
FetchOrder == <<"organic", "total", "organic_filtered", "total_filtered">>
Kinds == Range(FetchOrder)

\* the errors execute() raises: HTTP errors of the API client and transport
\* errors, all of them subclasses of Exception
ErrorClasses == {"HttpError", "TimeoutError"}

\* users and sessions the API reports in row i of the answer to a fetch
UsersOf(k, i) ==
    CASE k = "total" -> 99 + i
      [] k = "organic" -> 39 + i
      [] k = "total_filtered" -> 79 + i
      [] k = "organic_filtered" -> 29 + i
SessionsOf(k, i) == UsersOf(k, i) + 20

\* a batchGet response for a request without dimensions and with the metrics
\* ga:users and ga:sessions, holding n rows; data has no 'rows' when n = 0
GAResponse(k, n) ==
    LET entry(name) == [py |-> "dict", keys |-> {"name", "type"},
                        name |-> PyStr(name), type |-> PyStr("INTEGER")]
        row(i) == [py |-> "dict", keys |-> {"metrics"},
                   metrics |-> <<[py |-> "dict", keys |-> {"values"},
                                  values |-> <<PyStr(ToString(UsersOf(k, i))),
                                               PyStr(ToString(SessionsOf(k, i)))>>]>>]
        header == [py |-> "dict", keys |-> {"metricHeader"},
                   metricHeader |->
                       [py |-> "dict", keys |-> {"metricHeaderEntries"},
                        metricHeaderEntries |-> <<entry("ga:users"), entry("ga:sessions")>>]]
        data == IF n = 0 THEN [py |-> "dict", keys |-> {"rowCount"}]
                ELSE [py |-> "dict", keys |-> {"rows", "rowCount"},
                      rows |-> [i \in 1..n |-> row(i)]]
    IN  [py |-> "dict", keys |-> {"reports"},
         reports |-> <<[py |-> "dict", keys |-> {"columnHeader", "data"},
                        columnHeader |-> header, data |-> data]>>]

(***************************************************************************)
(* get_report, get_organic_report, get_report_filtered and                 *)
(* get_organic_report_filtered: the same retry loop around four requests.  *)
(***************************************************************************)
\* max_retries=3
DefaultMaxRetries == 3

\* time.sleep(5)
SleepSeconds == 5

\* except Exception as e
Catches_HttpOnly(e) == e = "HttpError"
Catches(e) == e \in ErrorClasses

\* while retries < max_retries
MayTry_Inclusive(r, n) == r <= n
MayTry(r, n) == r < n

\* what the function hands back for a response execute() returned
ReturnOf_Dropped(response) == None
ReturnOf(response) == response

\* the function returns to nextpc: its frame is gone.  The harness ("returned")
\* keeps the trace of the call to inspect it; in main the next call starts
\* a new one
LeaveFrame(nextpc) ==
    IF nextpc = "returned"
    THEN UNCHANGED <<retries, max_retries>>
    ELSE retries' = 0 /\ max_retries' = DefaultMaxRetries
KeepTrace(nextpc, log, n, outs, reply) ==
    IF nextpc = "returned"
    THEN fetch_log' = log /\ attempts' = n /\ outcomes' = outs /\ api_reply' = reply
         /\ UNCHANGED sleeps
    ELSE fetch_log' = <<>> /\ attempts' = 0 /\ outcomes' = <<>> /\ api_reply' = None
         /\ sleeps' = <<>>

\* the execute() calls of the current property and month: not recorded, or
\* recorded from an empty list
NotRecorded == [on |-> FALSE, calls |-> <<>>]
Recorded == [on |-> TRUE, calls |-> <<>>]

\* one more execute() call, where the run records them
Record(rec, call) == IF rec.on THEN [rec EXCEPT !.calls = Append(@, call)] ELSE rec

\* the function is entered: retries = 0
Call(k, n) ==
    /\ pc = "call"
    /\ kind = k
    /\ pc' = "try"
    /\ retries' = 0
    /\ max_retries' = n
    /\ fetch_log' = <<>>
    /\ sleeps' = <<>>
    /\ attempts' = 0
    /\ outcomes' = <<>>
    /\ exc' = None
    /\ UNCHANGED <<curr_date, run_start, run_end, month_end_date, ids, idx, domain, view_id,
                   start_date_str, end_date_str, kind, responses, df_combined,
                   accumulated_df, csv, api_reply, ga_rows, periods, listed, progress, succ_pairs, nz_in, nz_out,
                   dataset, selected, api_calls>>

\* execute() returns: return response
TrySucceed(k, nextpc, nextkind) ==
    /\ pc = "try"
    /\ kind = k
    /\ MayTry(retries, max_retries)
    /\ responses' = [responses EXCEPT ![k] = ReturnOf(GAResponse(k, ga_rows[k]))]
    /\ KeepTrace(nextpc, fetch_log, attempts + 1, Append(outcomes, "ok"),
                 GAResponse(k, ga_rows[k]))
    /\ LeaveFrame(nextpc)
    /\ pc' = nextpc
    /\ kind' = nextkind
    /\ api_calls' = Record(api_calls, [kind |-> k, retries |-> retries, ok |-> TRUE])
    /\ UNCHANGED <<curr_date, run_start, run_end, month_end_date, ids, idx, domain, view_id,
                   start_date_str, end_date_str, df_combined, accumulated_df, csv,
                   exc, ga_rows, periods, listed, progress, succ_pairs, nz_in, nz_out,
                   dataset, selected>>

\* execute() raises e: print, sleep, retries += 1; an error the except clause
\* does not catch leaves the function
TryFail(k) ==
    /\ pc = "try"
    /\ kind = k
    /\ MayTry(retries, max_retries)
    /\ \E e \in ErrorClasses :
        /\ attempts' = attempts + 1
            /\ outcomes' = Append(outcomes, e)
        /\ IF Catches(e)
           THEN /\ fetch_log' = Append(fetch_log,
                                       [view_id |-> view_id, start_date |-> start_date_str,
                                        error |-> e, attempt |-> retries + 1,
                                        of |-> max_retries])
                /\ sleeps' = Append(sleeps, SleepSeconds)
                /\ retries' = retries + 1
                /\ UNCHANGED <<pc, exc>>
           ELSE /\ exc' = PyStr(e)
                /\ pc' = "raised"
                /\ UNCHANGED <<fetch_log, sleeps, retries>>
    /\ api_calls' = Record(api_calls, [kind |-> k, retries |-> retries, ok |-> FALSE])
    /\ UNCHANGED <<curr_date, run_start, run_end, month_end_date, ids, idx, domain, view_id,
                   start_date_str, end_date_str, kind, max_retries, responses,
                   df_combined, accumulated_df, csv, api_reply, ga_rows, periods, listed, progress,
                   succ_pairs, nz_in, nz_out,
                   dataset, selected>>

\* the loop ends: print 'Failed to fetch data after ...', return None
GiveUp(k, nextpc, nextkind) ==
    /\ pc = "try"
    /\ kind = k
    /\ ~MayTry(retries, max_retries)
    /\ responses' = [responses EXCEPT ![k] = None]
    /\ KeepTrace(nextpc, Append(fetch_log, [failed_after |-> max_retries]),
                 attempts, outcomes, api_reply)
    /\ LeaveFrame(nextpc)
    /\ pc' = nextpc
    /\ kind' = nextkind
    /\ UNCHANGED <<curr_date, run_start, run_end, month_end_date, ids, idx, domain, view_id,
                   start_date_str, end_date_str, df_combined, accumulated_df, csv,
                   exc, ga_rows, periods, listed, progress, succ_pairs, nz_in, nz_out,
                   dataset, selected, api_calls>>

(***************************************************************************)
(* main.                                                                   *)
(***************************************************************************)
\* the fetch main calls after k, if any
NextKind(k) ==
    IF IndexOf(FetchOrder, k) < Len(FetchOrder)
    THEN FetchOrder[IndexOf(FetchOrder, k) + 1] ELSE k
AfterFetch(k) == IF IndexOf(FetchOrder, k) < Len(FetchOrder) THEN "call" ELSE "merge"

\* if organic_response is not None and total_response is not None
ShouldEmit_Either(organic_response, total_response) ==
    organic_response.py # "None" \/ total_response.py # "None"
ShouldEmit(organic_response, total_response) ==
    organic_response.py # "None" /\ total_response.py # "None"

\* the names rename gives ga:users and ga:sessions in the frame of a fetch
UsersName(k) ==
    CASE k = "organic" -> "organicTotalUsers"
      [] k = "total" -> "totalUsers"
      [] k = "organic_filtered" -> "organicTotalUsersFiltered"
      [] k = "total_filtered" -> "totalUsersFiltered"
SessionsName(k) ==
    CASE k = "organic" -> "organicSessions"
      [] k = "total" -> "totalSessions"
      [] k = "organic_filtered" -> "organicSessionsFiltered"
      [] k = "total_filtered" -> "totalSessionsFiltered"

\* the frame of fetch k after rename and df[...]['month'] = start_date_str
Segment(k, df, month) ==
    SetColumn(Rename(df, UsersName(k), SessionsName(k)), "month", PyStr(month))

\* while curr_date <= end_date: month_end_date, and the call of fetch_ids()
\* that the for statement makes
MonthBegin(lists) ==
    /\ pc = "while"
    /\ DateLE(curr_date, run_end)
    /\ month_end_date' = Date(curr_date.year, curr_date.month,
                              MonthRange(curr_date.year, curr_date.month))
    /\ periods' = Append(periods, <<curr_date, month_end_date'>>)
    /\ ids' \in lists
    /\ listed' = Append(listed, ids')
    /\ idx' = 0
    /\ pc' = "for"
    /\ UNCHANGED <<curr_date, run_start, run_end, domain, view_id, start_date_str, end_date_str,
                   kind, retries, max_retries, responses, df_combined, accumulated_df,
                   csv, fetch_log, sleeps, attempts, outcomes, api_reply, exc, ga_rows,
                   progress, succ_pairs, nz_in, nz_out,
                   dataset, selected, api_calls>>

\* the while condition is false
LoopExit ==
    /\ pc = "while"
    /\ ~DateLE(curr_date, run_end)
    /\ pc' = "to_csv"
    /\ UNCHANGED <<curr_date, run_start, run_end, month_end_date, ids, idx, domain, view_id,
                   start_date_str, end_date_str, kind, retries, max_retries, responses,
                   df_combined, accumulated_df, csv, fetch_log, sleeps, attempts,
                   outcomes, api_reply, exc, ga_rows, periods, listed, progress, succ_pairs, nz_in, nz_out,
                   dataset, selected, api_calls>>

\* the for loop takes the next (domain, view_id): print, the two strftime.
\* The four response names are dead here (each is assigned by its fetch before
\* the if statement reads it), so the values of the last pass are dropped
ForNext ==
    /\ pc = "for"
    /\ idx < Len(ids)
    /\ idx' = idx + 1
    /\ domain' = ids[idx + 1][1]
    /\ view_id' = ids[idx + 1][2]
    /\ start_date_str' = Strftime(curr_date)
    /\ end_date_str' = Strftime(month_end_date)
    /\ responses' = [k \in Kinds |-> None]
    /\ kind' = FetchOrder[1]
    /\ progress' = Append(progress, [date |-> curr_date, domain |-> domain'])
    /\ api_calls' = [api_calls EXCEPT !.calls = <<>>]
    /\ pc' = "call"
    /\ UNCHANGED <<curr_date, run_start, run_end, month_end_date, ids, retries, max_retries,
                   df_combined, accumulated_df, csv, fetch_log, sleeps,
                   attempts, outcomes, api_reply, exc, ga_rows, periods, listed, succ_pairs,
                   nz_in, nz_out,
                   dataset, selected>>

\* the for loop is exhausted: curr_date += relativedelta(months=1)
MonthEnd ==
    /\ pc = "for"
    /\ idx = Len(ids)
    /\ curr_date' = AddMonth(curr_date)
    /\ pc' = "while"
    /\ UNCHANGED <<run_start, run_end, month_end_date, ids, idx, domain, view_id, start_date_str,
                   end_date_str, kind, retries, max_retries, responses, df_combined,
                   accumulated_df, csv, fetch_log, sleeps, attempts, outcomes,
                   api_reply, exc, ga_rows, periods, listed, progress, succ_pairs,
                   nz_in, nz_out,
                   dataset, selected, api_calls>>

\* the if statement after the four fetches, with its whole body.  The local
\* frames are bound one after the other, as the statements assign them
Aggregate ==
    /\ pc = "merge"
    /\ IF ShouldEmit(responses["organic"], responses["total"])
       THEN \E w \in {[k \in Kinds |-> WriteToDf(responses[k])]} :
            IF \E k \in Kinds : w[k].raised
            THEN /\ exc' = PyStr("ValueError")
                 /\ pc' = "raised"
                 /\ UNCHANGED <<df_combined, accumulated_df, succ_pairs>>
            ELSE \E df_organic \in {Segment("organic", w["organic"].df, start_date_str)},
                    df_total \in {Segment("total", w["total"].df, start_date_str)},
                    df_organic_filtered \in {Segment("organic_filtered",
                                                     w["organic_filtered"].df, start_date_str)},
                    df_total_filtered \in {Segment("total_filtered",
                                                   w["total_filtered"].df, start_date_str)} :
                 \E df_merged \in {Merge(df_total, df_organic, "month")},
                    df_merged_filter \in {Merge(df_total_filtered, df_organic_filtered,
                                                "month")} :
                 \E merged \in {Merge(df_merged, df_merged_filter, "month")} :
                 \E filled \in {Fillna(merged)} :
                 \E combined \in {SetColumn(filled, "domain", PyStr(domain))} :
                     /\ df_combined' = combined
                     /\ accumulated_df' = Concat(accumulated_df, combined)
                     /\ succ_pairs' = succ_pairs + 1
                     /\ pc' = "for"
                     /\ UNCHANGED exc
       ELSE /\ pc' = "for"
            /\ UNCHANGED <<df_combined, accumulated_df, succ_pairs, exc>>
    /\ UNCHANGED <<curr_date, run_start, run_end, month_end_date, ids, idx, domain,
                   view_id, start_date_str, end_date_str, kind, retries, max_retries,
                   responses, csv, fetch_log, sleeps, attempts, outcomes, api_reply,
                   ga_rows, periods, listed, progress, nz_in, nz_out,
                   dataset, selected, api_calls>>

\* accumulated_df.to_csv(file_path, index=False), and the end of main
ToCsv ==
    /\ pc = "to_csv"
    /\ csv' = Append(csv, accumulated_df)
    /\ pc' = "done"
    /\ UNCHANGED <<curr_date, run_start, run_end, month_end_date, ids, idx, domain, view_id,
                   start_date_str, end_date_str, kind, retries, max_retries, responses,
                   df_combined, accumulated_df, fetch_log, sleeps, attempts, outcomes,
                   api_reply, exc, ga_rows, periods, listed, progress, succ_pairs,
                   nz_in, nz_out,
                   dataset, selected, api_calls>>

\* the filter functions, by the fetch that sends their clause list
FilterNames == {"organic", "non_blog", "organic_non_blog"}

\* no clause list has been applied yet
NoneSelected == [f \in FilterNames |-> {}]

\* one step of one of the four fetches, as main calls it
Fetch(k) ==
    \/ Call(k, DefaultMaxRetries)
    \/ TrySucceed(k, AfterFetch(k), NextKind(k))
    \/ TryFail(k)
    \/ GiveUp(k, AfterFetch(k), NextKind(k))

\* the state main starts in, but for pc, the dates, the API's data and the
\* names the for loop binds
InitLocals ==
    /\ month_end_date = start_date
    /\ ids = <<>>
    /\ idx = 0
    /\ retries = 0
    /\ max_retries = DefaultMaxRetries
    /\ responses = [k \in Kinds |-> None]
    /\ df_combined = EmptyDF
    /\ accumulated_df = EmptyDF
    /\ csv = <<>>
    /\ fetch_log = <<>>
    /\ sleeps = <<>>
    /\ attempts = 0
    /\ outcomes = <<>>
    /\ api_reply = None
    /\ exc = None
    /\ periods = <<>>
    /\ listed = <<>>
    /\ progress = <<>>
    /\ succ_pairs = 0
    /\ nz_in = None
    /\ nz_out = Returned(EmptyDF)
    /\ dataset = {}
    /\ selected = NoneSelected

\* the names the for loop binds, before it has run
InitLoop ==
    /\ domain = ""
    /\ view_id = ""
    /\ start_date_str = ""
    /\ end_date_str = ""
    /\ kind = FetchOrder[1]

\* a run of main over the first NumMonths months.  The requests carry no
\* dimensions, so the API answers each with the totals row or, when the view
\* has no data for the month, with no row
Init ==
    /\ pc = "while"
    /\ run_start = start_date
    /\ curr_date = run_start
    /\ run_end = RunEnd
    /\ ga_rows \in [Kinds -> {0, 1}]
    /\ InitLoop
    /\ InitLocals
    /\ api_calls = NotRecorded

Next ==
    \/ MonthBegin(PropertyLists)
    \/ LoopExit
    \/ ForNext
    \/ MonthEnd
    \/ \E k \in Kinds : Fetch(k)
    \/ Aggregate
    \/ ToCsv

Spec == Init /\ [][Next]_vars

\* the same run under the scheduling of a sequential program: it takes its
\* next step whenever it has one.  Every attempt of every fetch may still
\* succeed or raise; the API holds the totals row for every request
InitLive ==
    /\ pc = "while"
    /\ run_start = start_date
    /\ curr_date = run_start
    /\ run_end = RunEnd
    /\ ga_rows = [k \in Kinds |-> 1]
    /\ InitLoop
    /\ InitLocals
    /\ api_calls = NotRecorded

SpecLive == InitLive /\ [][Next]_vars /\ WF_vars(Next)

\* a run of main over the first month only, against an API that may answer
\* a request with any number of rows up to MaxRows
InitPeriod ==
    /\ pc = "while"
    /\ run_start = start_date
    /\ curr_date = run_start
    /\ run_end = Date(start_date.year, start_date.month,
                      MonthRange(start_date.year, start_date.month))
    /\ ga_rows \in [Kinds -> 0..MaxRows]
    /\ InitLoop
    /\ InitLocals
    /\ api_calls = NotRecorded

SpecPeriod == InitPeriod /\ [][Next]_vars

\* the same one-month run with the execute() calls of each property recorded,
\* against an API that holds the totals row for every request
InitPair ==
    /\ pc = "while"
    /\ run_start = start_date
    /\ curr_date = run_start
    /\ run_end = Date(start_date.year, start_date.month,
                      MonthRange(start_date.year, start_date.month))
    /\ ga_rows = [k \in Kinds |-> 1]
    /\ InitLoop
    /\ InitLocals
    /\ api_calls = Recorded

SpecPair == InitPair /\ [][Next]_vars

(***************************************************************************)
(* One call of one fetch function, with any max_retries.                   *)
(***************************************************************************)
InitFetch ==
    /\ pc = "call"
    /\ kind \in Kinds
    /\ run_start = start_date
    /\ curr_date = run_start
    /\ run_end = RunEnd
    /\ domain = Property(1)[1]
    /\ view_id = Property(1)[2]
    /\ start_date_str = Strftime(start_date)
    /\ end_date_str = Strftime(Date(start_date.year, start_date.month,
                                    MonthRange(start_date.year, start_date.month)))
    /\ ga_rows \in {[k \in Kinds |-> n] : n \in {0, 1}}
    /\ InitLocals
    /\ api_calls = NotRecorded

NextFetch ==
    \E k \in Kinds :
        \/ \E n \in 0..MaxRetriesArg : Call(k, n)
        \/ TrySucceed(k, "returned", k)
        \/ TryFail(k)
        \/ GiveUp(k, "returned", k)

SpecFetch == InitFetch /\ [][NextFetch]_vars

(***************************************************************************)
(* The month loop of main for any start month and end date, with an empty  *)
(* property table.                                                         *)
(***************************************************************************)
Years == start_date.year..(start_date.year + YearSpan)

InitMonths ==
    /\ pc = "while"
    /\ run_start \in {Date(y, m, 1) : y \in Years, m \in 1..12}
    /\ curr_date = run_start
    /\ run_end \in {Date(y, m, d) : y \in Years, m \in 1..12, d \in {1, 28, 29, 30, 31}}
    /\ run_end.day \in {1, MonthRange(run_end.year, run_end.month)}
    /\ ga_rows = [k \in Kinds |-> 1]
    /\ InitLoop
    /\ InitLocals
    /\ api_calls = NotRecorded

NextMonths ==
    \/ MonthBegin({<<>>})
    \/ MonthEnd
    \/ LoopExit
    \/ ToCsv

SpecMonths == InitMonths /\ [][NextMonths]_vars

(***************************************************************************)
(* write_to_df on well-formed and malformed responses.                     *)
(***************************************************************************)
\* a dict with the one key k
Dict1(k, v) == [py |-> "dict", keys |-> {k}] @@ (k :> v)

MetricEntry(name) == [py |-> "dict", keys |-> {"name", "type"},
                      name |-> PyStr(name), type |-> PyStr("INTEGER")]
MetricValues(vs) == Dict1("values", [i \in 1..Len(vs) |-> PyStr(vs[i])])

\* columnHeader of a report: absent, metrics only, a dimension and a metric,
\* three metrics, or a metric header entry without a name
HeaderSamples ==
    { EmptyDict,
      Dict1("columnHeader",
            Dict1("metricHeader",
                  Dict1("metricHeaderEntries",
                        <<MetricEntry("ga:users"), MetricEntry("ga:sessions"),
                          MetricEntry("ga:pageviews")>>))),
      Dict1("columnHeader",
            Dict1("metricHeader",
                  Dict1("metricHeaderEntries",
                        <<MetricEntry("ga:users"), MetricEntry("ga:sessions")>>))),
      Dict1("columnHeader",
            [py |-> "dict", keys |-> {"dimensions", "metricHeader"},
             dimensions |-> <<PyStr("ga:date")>>,
             metricHeader |-> Dict1("metricHeaderEntries", <<MetricEntry("ga:users")>>)]),
      Dict1("columnHeader",
            Dict1("metricHeader",
                  Dict1("metricHeaderEntries", <<Dict1("type", PyStr("INTEGER"))>>))) }

\* rows of a report: no cell, two metric values, a dimension and a metric
\* value, three values spread over three metric entries, one metric value
RowSamples ==
    { EmptyDict,
      Dict1("metrics", <<MetricValues(<<"1", "2">>)>>),
      [py |-> "dict", keys |-> {"dimensions", "metrics"},
       dimensions |-> <<PyStr("20190101")>>,
       metrics |-> <<MetricValues(<<"3">>)>>],
      Dict1("metrics", <<MetricValues(<<"4">>), MetricValues(<<"5">>), MetricValues(<<"6">>)>>),
      Dict1("metrics", <<MetricValues(<<"7">>)>>) }

\* lists of length lo..hi over S
SeqsOf(S, lo, hi) == UNION {[1..n -> S] : n \in lo..hi}

\* data of a report with at most n rows: absent, without rows, or with rows
DataSamples(n) ==
    {EmptyDict, Dict1("data", EmptyDict)}
    \cup {Dict1("data", Dict1("rows", rs)) : rs \in SeqsOf(RowSamples, 1, n)}

\* a report made of a header part and a data part
Report(h, d) ==
    [py |-> "dict", keys |-> h.keys \cup d.keys]
    @@ [k \in h.keys |-> h[k]] @@ [k \in d.keys |-> d[k]]

ReportSamples(n) == {Report(h, d) : h \in HeaderSamples, d \in DataSamples(n)}

\* the responses write_to_df is tried on: None, {}, a dict without 'reports',
\* an empty list of reports, one report with up to MaxRows rows, and several
\* reports with at most one row each
ResponseSamples ==
    {None, EmptyDict, Dict1("error", PyStr("quota")), Dict1("reports", <<>>)}
    \cup {Dict1("reports", <<r>>) : r \in ReportSamples(MaxRows)}
    \cup {Dict1("reports", rs) : rs \in SeqsOf(ReportSamples(1), 2, MaxReports)}

InitNormalize ==
    /\ pc = "normalize"
    /\ nz_in \in ResponseSamples
    /\ nz_out = Returned(EmptyDF)
    /\ run_start = start_date
    /\ curr_date = run_start
    /\ run_end = RunEnd
    /\ ga_rows = [k \in Kinds |-> 1]
    /\ InitLoop
    /\ month_end_date = start_date
    /\ ids = <<>>
    /\ idx = 0
    /\ retries = 0
    /\ max_retries = DefaultMaxRetries
    /\ responses = [k \in Kinds |-> None]
    /\ df_combined = EmptyDF
    /\ accumulated_df = EmptyDF
    /\ csv = <<>>
    /\ fetch_log = <<>>
    /\ sleeps = <<>>
    /\ attempts = 0
    /\ outcomes = <<>>
    /\ api_reply = None
    /\ exc = None
    /\ periods = <<>>
    /\ listed = <<>>
    /\ progress = <<>>
    /\ succ_pairs = 0
    /\ dataset = {}
    /\ selected = NoneSelected
    /\ api_calls = NotRecorded

\* df = write_to_df(nz_in)
Normalize ==
    /\ pc = "normalize"
    /\ nz_out' = WriteToDf(nz_in)
    /\ pc' = "normalized"
    /\ UNCHANGED <<curr_date, run_start, run_end, month_end_date, ids, idx, domain,
                   view_id, start_date_str, end_date_str, kind, retries, max_retries,
                   responses, df_combined, accumulated_df, csv, fetch_log, sleeps,
                   attempts, outcomes, api_reply, exc, ga_rows, periods, listed, progress, succ_pairs,
                   nz_in, dataset, selected, api_calls>>

SpecNormalize == InitNormalize /\ [][Normalize]_vars

(***************************************************************************)
(* The dimension filter clauses the three get_*_filter functions build,    *)
(* and what the Reporting API does with a clause list: a row passes when   *)
(* every clause passes; a clause combines its filters with its operator,   *)
(* OR when none is given; a filter compares case-insensitively unless told *)
(* otherwise and is inverted by 'not'.  Text is a list of characters.      *)
(***************************************************************************)
MaxSample == 3

UpperCase == <<"A", "B", "C", "D", "E", "F", "G", "H", "I", "J", "K", "L", "M",
               "N", "O", "P", "Q", "R", "S", "T", "U", "V", "W", "X", "Y", "Z">>
LowerCase == <<"a", "b", "c", "d", "e", "f", "g", "h", "i", "j", "k", "l", "m",
               "n", "o", "p", "q", "r", "s", "t", "u", "v", "w", "x", "y", "z">>

\* a character, lower-cased
Lower(c) ==
    IF \E i \in 1..26 : UpperCase[i] = c
    THEN LowerCase[CHOOSE i \in 1..26 : UpperCase[i] = c] ELSE c

\* a text, lower-cased
Fold(t) == [i \in 1..Len(t) |-> Lower(t[i])]

\* the text t holds the text w somewhere
Contains(t, w) ==
    \E i \in 0..(Len(t) - Len(w)) : SubSeq(t, i + 1, i + Len(w)) = w

\* 'Organic Search' and 'blog'
OrganicSearch == <<"O", "r", "g", "a", "n", "i", "c", " ", "S", "e", "a", "r", "c", "h">>
Blog == <<"b", "l", "o", "g">>

\* the filter dicts of the source
ChannelIsOrganic ==
    [py |-> "dict", keys |-> {"dimensionName", "operator", "expressions"},
     dimensionName |-> "ga:channelGrouping", operator |-> "EXACT",
     expressions |-> <<OrganicSearch>>]
LandingPageNotBlog ==
    [py |-> "dict", keys |-> {"dimensionName", "operator", "expressions", "not"},
     dimensionName |-> "ga:landingPagePath", operator |-> "REGEXP",
     expressions |-> <<Blog>>, not |-> TRUE]

\* a clause dict without and with an 'operator' key
Clause(filters) == [py |-> "dict", keys |-> {"filters"}, filters |-> filters]
ClauseWith(op, filters) ==
    [py |-> "dict", keys |-> {"operator", "filters"}, operator |-> op, filters |-> filters]

get_organic_filter == <<Clause(<<ChannelIsOrganic>>)>>

get_blog_filter == <<Clause(<<LandingPageNotBlog>>)>>

get_blog_organic_filter_Or == <<Clause(<<ChannelIsOrganic, LandingPageNotBlog>>)>>
get_blog_organic_filter == <<ClauseWith("AND", <<ChannelIsOrganic, LandingPageNotBlog>>)>>

\* the clause list each filtered fetch sends as 'dimensionFilterClauses'
ClausesOf(f) ==
    CASE f = "organic" -> get_organic_filter
      [] f = "non_blog" -> get_blog_filter
      [] f = "organic_non_blog" -> get_blog_organic_filter

\* the value of a row in a dimension
DimensionOf(row, name) ==
    IF name = "ga:channelGrouping" THEN row.channelGrouping ELSE row.landingPagePath

\* one expression against a value: EXACT is equality, REGEXP a search for the
\* pattern, which for a pattern of plain letters is a search for the text
Matches(op, value, expr, caseSensitive) ==
    LET v == IF caseSensitive THEN value ELSE Fold(value)
        e == IF caseSensitive THEN expr ELSE Fold(expr)
    IN  IF op = "EXACT" THEN v = e ELSE Contains(v, e)

\* a filter dict against a row
FilterPasses(flt, row) ==
    LET hit == Matches(flt.operator, DimensionOf(row, flt.dimensionName),
                       flt.expressions[1], Get(flt, "caseSensitive", FALSE))
    IN  IF Get(flt, "not", FALSE) THEN ~hit ELSE hit

\* a clause dict against a row
ClausePasses(clause, row) ==
    IF Get(clause, "operator", "OR") = "AND"
    THEN \A i \in 1..Len(clause.filters) : FilterPasses(clause.filters[i], row)
    ELSE \E i \in 1..Len(clause.filters) : FilterPasses(clause.filters[i], row)

\* a clause list against a row
Selects(clauses, row) == \A i \in 1..Len(clauses) : ClausePasses(clauses[i], row)

\* sample values of the two dimensions
ChannelSamples ==
    { OrganicSearch,
      <<"o", "r", "g", "a", "n", "i", "c", " ", "s", "e", "a", "r", "c", "h">>,
      <<"O", "r", "g", "a", "n", "i", "c">>,
      <<"D", "i", "r", "e", "c", "t">> }
PathSamples ==
    { <<"/">>,
      <<"/", "b", "l", "o", "g", "/", "p", "o", "s", "t">>,
      <<"/", "B", "l", "o", "g", "/", "x">>,
      <<"/", "w", "e", "b", "l", "o", "g">>,
      <<"/", "p", "r", "i", "c", "i", "n", "g">> }
RowUniverse ==
    {[channelGrouping |-> c, landingPagePath |-> p] : c \in ChannelSamples, p \in PathSamples}

\* the datasets of at most MaxSample rows
InitFilter ==
    /\ pc = "filter"
    /\ dataset \in UNION {{Range(rows) : rows \in [1..n -> RowUniverse]} : n \in 0..MaxSample}
    /\ selected = NoneSelected
    /\ api_calls = NotRecorded
    /\ nz_in = None
    /\ nz_out = Returned(EmptyDF)
    /\ run_start = start_date
    /\ curr_date = run_start
    /\ run_end = RunEnd
    /\ ga_rows = [k \in Kinds |-> 1]
    /\ InitLoop
    /\ month_end_date = start_date
    /\ ids = <<>>
    /\ idx = 0
    /\ retries = 0
    /\ max_retries = DefaultMaxRetries
    /\ responses = [k \in Kinds |-> None]
    /\ df_combined = EmptyDF
    /\ accumulated_df = EmptyDF
    /\ csv = <<>>
    /\ fetch_log = <<>>
    /\ sleeps = <<>>
    /\ attempts = 0
    /\ outcomes = <<>>
    /\ api_reply = None
    /\ exc = None
    /\ periods = <<>>
    /\ listed = <<>>
    /\ progress = <<>>
    /\ succ_pairs = 0

\* each clause list is applied to the dataset
ApplyFilters ==
    /\ pc = "filter"
    /\ selected' = [f \in FilterNames |-> {r \in dataset : Selects(ClausesOf(f), r)}]
    /\ pc' = "filtered"
    /\ UNCHANGED <<curr_date, run_start, run_end, month_end_date, ids, idx, domain,
                   view_id, start_date_str, end_date_str, kind, retries, max_retries,
                   responses, df_combined, accumulated_df, csv, fetch_log, sleeps,
                   attempts, outcomes, api_reply, exc, ga_rows, periods, listed, progress,
                   succ_pairs, nz_in, nz_out, dataset, api_calls>>

SpecFilter == InitFilter /\ [][ApplyFilters]_vars

(***************************************************************************)
(* The claims.                                                             *)
(***************************************************************************)
\* the execute() calls of the running fetch that raised
Failures == {i \in 1..Len(outcomes) : outcomes[i] # "ok"}

\* C1 (SpecFetch): a fetch whose execute() raised on its first k < max_retries
\* attempts and then returned a response hands back that response unchanged,
\* after exactly k + 1 attempts, and takes no further step
C1_RetryThenSuccess ==
    (pc = "returned" /\ outcomes # <<>> /\ outcomes[Len(outcomes)] = "ok") =>
        /\ Failures = 1..(Len(outcomes) - 1)
        /\ Cardinality(Failures) < max_retries
        /\ retries = Cardinality(Failures)
        /\ attempts = Cardinality(Failures) + 1
        /\ responses[kind] = api_reply
        /\ responses[kind] = GAResponse(kind, ga_rows[kind])
        /\ exc = None
        /\ ~ENABLED NextFetch

\* C1 witness: two failures of different classes, then the response
C1_Witness ==
    /\ pc = "returned"
    /\ max_retries = 3
    /\ outcomes = <<"HttpError", "TimeoutError", "ok">>
    /\ responses[kind] = GAResponse(kind, 1)

\* C2 (SpecFetch): for every max_retries >= 0, a fetch whose execute() raised
\* on every attempt made exactly max_retries attempts and returned None, and no
\* exception leaves a fetch
C2_ExhaustedReturnsNone ==
    /\ exc = None
    /\ pc # "raised"
    /\ attempts <= max_retries
    /\ (pc = "returned" /\ Failures = 1..Len(outcomes)) =>
        /\ attempts = max_retries
        /\ Len(outcomes) = max_retries
        /\ responses[kind] = None

\* C2 witness: three attempts, errors of both classes, None returned
C2_Witness ==
    /\ pc = "returned"
    /\ max_retries = 3
    /\ attempts = 3
    /\ outcomes = <<"TimeoutError", "HttpError", "TimeoutError">>
    /\ responses[kind] = None

\* C3 (Spec): when the organic or the total fetch handed back None, the if
\* statement appends nothing: accumulated_df is unchanged, nothing is raised and
\* main is back in the for loop, which then takes the next property or ends
\* the month
C3_SkipOnTerminalFailure ==
    /\ [][(pc = "merge" /\ (responses["total"] = None \/ responses["organic"] = None)) =>
            /\ accumulated_df' = accumulated_df
            /\ exc' = None
            /\ pc' = "for"
            /\ <<curr_date, ids, idx>>' = <<curr_date, ids, idx>>]_vars
    /\ [](pc = "for" => ENABLED (ForNext \/ MonthEnd))

\* C3 witness: a pair was skipped after an earlier pair had put a row
C3_Witness ==
    /\ pc = "for"
    /\ idx > 0
    /\ responses["total"] = None
    /\ responses["organic"] # None
    /\ accumulated_df.rows # <<>>

\* months since year 0 of the month a date lies in
MonthIdx(d) == d.year * 12 + (d.month - 1)

\* the first day of the month with index n
FirstOfMonth(n) == Date(n \div 12, (n % 12) + 1, 1)

\* the number of months from the start month through the end date's month
SpanLen == Max(0, MonthIdx(run_end) - MonthIdx(run_start) + 1)

\* the months of the date span, in order
SpanMonths == [i \in 1..SpanLen |-> FirstOfMonth(MonthIdx(run_start) + i - 1)]

\* every month of the span was entered once, in order, and in each month every
\* property fetch_ids() listed was taken once, in order
AllPairsProcessed ==
    /\ Len(periods) = Len(SpanMonths)
    /\ Len(listed) = Len(SpanMonths)
    /\ \A m \in 1..Len(SpanMonths) : periods[m][1] = SpanMonths[m]
    /\ progress = Flatten([m \in 1..Len(SpanMonths) |->
                             [j \in 1..Len(listed[m]) |->
                                 [date |-> SpanMonths[m], domain |-> listed[m][j][1]]]])

\* C4 (SpecLive): whatever the fetches do, the run reaches the end of main
\* with the date range exhausted and every (property, month) processed
C4_RunTerminates ==
    <>(pc = "done" /\ ~DateLE(curr_date, run_end) /\ AllPairsProcessed)

\* C4 witness: the run ended after two months of two properties in which
\* every period was skipped
C4_Witness ==
    /\ pc = "done"
    /\ Len(progress) = NumMonths * MaxProps
    /\ succ_pairs = 0
    /\ AllPairsProcessed

\* rows of the frame write_to_df makes of the response of fetch k
TableRows(k) == Len(WriteToDf(responses[k]).df.rows)

\* the if statement has just built df_combined from the four responses
Emitted ==
    /\ pc = "for"
    /\ idx > 0
    /\ ShouldEmit(responses["organic"], responses["total"])

\* C5 as stated (SpecPeriod): at the end of a run accumulated_df holds one row
\* for each pair whose organic and total fetches returned a response, whatever
\* rows the responses hold
C5_OneRowPerSuccessfulPair ==
    pc = "done" => Len(accumulated_df.rows) = succ_pairs

\* C5 as amended (SpecPeriod): when the total response holds exactly one row
\* and each of the other three at most one, accumulated_df holds one row for
\* each pair whose organic and total fetches returned a response, and to_csv
\* writes those rows
C5_OneRowWhenSingleRowTables ==
    (ga_rows["total"] = 1 /\ \A k \in Kinds : ga_rows[k] <= 1) =>
        /\ Len(accumulated_df.rows) = succ_pairs
        /\ pc = "done" => (Len(csv) = 1 /\ Len(csv[1].rows) = succ_pairs)

\* C5 witness: a run ended with two successful pairs and two rows, one of the
\* filtered fetches having failed for the last pair
C5_Witness ==
    /\ pc = "done"
    /\ ga_rows["total"] = 1
    /\ \A k \in Kinds : ga_rows[k] <= 1
    /\ succ_pairs = 2
    /\ Len(accumulated_df.rows) = 2
    /\ responses["total_filtered"] = None

\* the columns of a PeriodRow
TenColumns ==
    {"totalUsers", "totalSessions", "organicTotalUsers", "organicSessions",
     "totalUsersFiltered", "totalSessionsFiltered", "organicTotalUsersFiltered",
     "organicSessionsFiltered", "month", "domain"}

\* the cell of the first row of df_combined in the column called name
CombinedCell(name) == df_combined.rows[1][IndexOf(df_combined.columns, name)]

\* C6 (SpecPeriod): when the total table has one row and each other table has
\* one row or none (no row in the response, or no response), df_combined is one
\* row of exactly the ten columns, with 0 in both columns of every empty table
C6_TenZeroFilledColumns ==
    (Emitted /\ TableRows("total") = 1 /\ \A k \in Kinds : TableRows(k) <= 1) =>
        /\ Len(df_combined.rows) = 1
        /\ Len(df_combined.columns) = 10
        /\ Range(df_combined.columns) = TenColumns
        /\ \A k \in Kinds :
              TableRows(k) = 0 =>
                  /\ CombinedCell(UsersName(k)) = Int0
                  /\ CombinedCell(SessionsName(k)) = Int0

\* the frame of fetch k as main has it before the merges
SegmentOf(k) == Segment(k, WriteToDf(responses[k]).df, start_date_str)

\* total -> organic -> total-filtered -> organic-filtered, left joins on month
LeftJoinChain ==
    Merge(Merge(Merge(SegmentOf("total"), SegmentOf("organic"), "month"),
                SegmentOf("total_filtered"), "month"),
          SegmentOf("organic_filtered"), "month")

\* C7 (SpecPeriod): df_combined is the left-join chain total -> organic ->
\* total-filtered -> organic-filtered on month, zero filled, with the domain;
\* so a row of the organic-filtered table shows in it whenever the total table
\* has a row
C7_LeftJoinChain ==
    Emitted =>
        /\ df_combined = SetColumn(Fillna(LeftJoinChain), "domain", PyStr(domain))
        /\ (TableRows("total") = 1 /\ TableRows("organic_filtered") = 1) =>
              /\ "organicTotalUsersFiltered" \in Range(df_combined.columns)
              /\ CombinedCell("organicTotalUsersFiltered")
                     = PyStr(ToString(UsersOf("organic_filtered", 1)))
              /\ CombinedCell("organicSessionsFiltered")
                     = PyStr(ToString(SessionsOf("organic_filtered", 1)))

\* C8 (SpecNormalize): write_to_df never raises, whatever the response, and
\* every row of the frame it returns has as many cells as the frame has columns
C8_WriteToDfNeverRaises ==
    pc = "normalized" =>
        /\ ~nz_out.raised
        /\ \A i \in 1..Len(nz_out.df.rows) :
              Len(nz_out.df.rows[i]) = Len(nz_out.df.columns)

\* C9 (SpecNormalize): write_to_df(None) and write_to_df({}) return a frame
\* without rows and do not raise
C9_NoneAndEmptyDict ==
    (pc = "normalized" /\ (nz_in = None \/ nz_in = EmptyDict)) =>
        /\ ~nz_out.raised
        /\ nz_out.df.rows = <<>>

\* C9 witness: write_to_df(None) has returned
C9_Witness ==
    /\ pc = "normalized"
    /\ nz_in = None
    /\ nz_out = Returned(EmptyDF)

\* days from a fixed day to date d (the Julian day number)
Ordinal(d) ==
    LET a == (14 - d.month) \div 12
        y == d.year + 4800 - a
        m == d.month + 12 * a - 3
    IN  d.day + ((153 * m + 2) \div 5) + 365 * y + (y \div 4) - (y \div 100)
        + (y \div 400) - 32045

\* C10 (SpecMonths): the loop enters each month from the start month through
\* the month of the end date once, in ascending order; curr_date is always the
\* first day of a month and month_end_date the last day of that month, the day
\* before the first of the next; 2019-01-01..2019-03-31 gives the three
\* periods that end 2019-01-31, 2019-02-28 and 2019-03-31
C10_MonthStepping ==
    /\ curr_date.day = 1
    /\ Len(periods) <= SpanLen
    /\ \A i \in 1..Len(periods) :
          /\ periods[i][1] = FirstOfMonth(MonthIdx(run_start) + i - 1)
          /\ MonthIdx(periods[i][2]) = MonthIdx(periods[i][1])
          /\ Ordinal(periods[i][2]) + 1
                 = Ordinal(FirstOfMonth(MonthIdx(periods[i][1]) + 1))
    /\ pc \in {"to_csv", "done"} => Len(periods) = SpanLen
    /\ (pc = "done" /\ run_start = Date(2019, 1, 1) /\ run_end = Date(2019, 3, 31)) =>
          [i \in 1..Len(periods) |-> Strftime(periods[i][2])]
              = <<"2019-01-31", "2019-02-28", "2019-03-31">>

\* C10 witness: the loop ran over the span of the program, 2019-01-01 to
\* 2023-06-30, and its fourteenth period ended on 29 February 2020
C10_Witness ==
    /\ pc = "done"
    /\ run_start = start_date
    /\ run_end = Date(2023, 6, 30)
    /\ Len(periods) = 54
    /\ periods[14][2] = Date(2020, 2, 29)

\* C11 (SpecFilter): on every sample dataset the clause list of
\* get_blog_organic_filter selects a row exactly when the clause lists of
\* get_organic_filter and of get_blog_filter both select it, so its row set is
\* the intersection of theirs
C11_FilterIsIntersection ==
    pc = "filtered" =>
        /\ selected["organic_non_blog"] = selected["organic"] \cap selected["non_blog"]
        /\ \A r \in dataset :
              r \in selected["organic_non_blog"]
                  <=> (Selects(get_organic_filter, r) /\ Selects(get_blog_filter, r))

\* C11 witness: a dataset with an organic blog row, a direct non-blog row and
\* an organic non-blog row, of which the combined clause keeps only the last
C11_Witness ==
    /\ pc = "filtered"
    /\ Cardinality(dataset) = 3
    /\ Cardinality(selected["organic"]) = 2
    /\ Cardinality(selected["non_blog"]) = 2
    /\ Cardinality(selected["organic_non_blog"]) = 1
    /\ \E r \in selected["organic_non_blog"] :
          r.landingPagePath = <<"/", "p", "r", "i", "c", "i", "n", "g">>

\* C12 (Spec): to_csv is called at most once, and only at the end of main:
\* while main is anywhere before its end nothing has been written, and what is
\* written after the last property of the last month is the accumulated frame
C12_WrittenOnceAtEnd ==
    /\ Len(csv) <= 1
    /\ pc # "done" => csv = <<>>
    /\ pc = "done" =>
          /\ Len(csv) = 1
          /\ csv[1] = accumulated_df
          /\ ~DateLE(curr_date, run_end)
          /\ AllPairsProcessed

\* C12 witness: a finished run over two months whose one written table holds
\* a row of each month
C12_Witness ==
    /\ pc = "done"
    /\ Len(csv) = 1
    /\ Len(csv[1].rows) >= 2
    /\ Len(periods) = NumMonths
    /\ \E i, j \in 1..Len(csv[1].rows) :
          \E c \in 1..Len(csv[1].columns) :
              /\ csv[1].columns[c] = "month"
              /\ csv[1].rows[i][c] # csv[1].rows[j][c]

\* the frame old is the upper left block of the frame new: same leading
\* columns, and every row of old is, on those columns, the row of new at the
\* same position
IsBlockOf(old, new) ==
    /\ Len(old.rows) <= Len(new.rows)
    /\ Len(old.columns) <= Len(new.columns)
    /\ \A c \in 1..Len(old.columns) : new.columns[c] = old.columns[c]
    /\ \A i \in 1..Len(old.rows) :
          \A c \in 1..Len(old.columns) : new.rows[i][c] = old.rows[i][c]

ResponseValue(k, j) == responses[k].reports[1].data.rows[1].metrics[1].values[j]

\* C14 (SpecPeriod): in the row made of four tables of at most one row, the
\* two columns named after a fetch hold the users and sessions of the row that
\* fetch returned, and 0 when its response held no row; month is the start
\* date of the period and domain the domain of the property
C14_ColumnsCarryTheirFetch ==
    (Emitted /\ TableRows("total") = 1 /\ \A k \in Kinds : TableRows(k) <= 1) =>
        /\ Len(df_combined.rows) = 1
        /\ CombinedCell("month") = PyStr(start_date_str)
        /\ CombinedCell("domain") = PyStr(domain)
        /\ \A k \in Kinds :
              /\ TableRows(k) = 1 =>
                    /\ {UsersName(k), SessionsName(k)} \subseteq Range(df_combined.columns)
                    /\ CombinedCell(UsersName(k)) = ResponseValue(k, 1)
                    /\ CombinedCell(SessionsName(k)) = ResponseValue(k, 2)
              /\ (TableRows(k) = 0 /\ responses[k] # None) =>
                    /\ {UsersName(k), SessionsName(k)} \subseteq Range(df_combined.columns)
                    /\ CombinedCell(UsersName(k)) = Int0
                    /\ CombinedCell(SessionsName(k)) = Int0

\* how many values the metrics of a row hold before its m-th metric
RECURSIVE ValuesBefore(_, _)
ValuesBefore(ms, m) ==
    IF m <= 1 THEN 0
    ELSE ValuesBefore(ms, m - 1) + Len(Get(ms[m - 1], "values", <<>>))

\* the response holds one report with a header whose metric entries are
\* named, and each of its rows holds one value per header name
OneWellFormedReport(response) ==
    /\ response.py = "dict"
    /\ "reports" \in response.keys
    /\ Len(response.reports) = 1
    /\ LET report == response.reports[1]
       IN  /\ {"columnHeader", "data"} \subseteq report.keys
           /\ "rows" \in report.data.keys
           /\ LET dims == Get(report.columnHeader, "dimensions", <<>>)
                  entries == Get(Get(report.columnHeader, "metricHeader", EmptyDict),
                                 "metricHeaderEntries", <<>>)
              IN  /\ \A e \in 1..Len(entries) : "name" \in entries[e].keys
                  /\ \A i \in 1..Len(report.data.rows) :
                        LET row == report.data.rows[i]
                            ms == Get(row, "metrics", <<>>)
                        IN  /\ Len(Get(row, "dimensions", <<>>)) = Len(dims)
                            /\ ValuesBefore(ms, Len(ms) + 1) = Len(entries)

C16_SleepOnlyBetweenAttempts ==
    /\ \A i \in 1..Len(sleeps) : sleeps[i] = SleepSeconds
    /\ (pc = "returned" /\ attempts >= 1) => Len(sleeps) = attempts - 1

\* C17 (Spec): every month of the run is processed against the same list of
\* (domain, view_id) pairs
C17_PropertyListFixedForRun ==
    \A i, j \in 1..Len(listed) : listed[i] = listed[j]

\* the lines a fetch printed for its attempts (not the final 'Failed to fetch')
AttemptLines == SelectSeq(fetch_log, LAMBDA line : "attempt" \in DOMAIN line)

\* C18 (SpecFetch): a fetch that has returned printed one line per attempt it
\* made, failed or not, each with the view id, the start and the end date, the
\* attempt number and the error; the numbers run 1, 2, ... and stay within
\* max_retries
C18_EveryAttemptLogged ==
    pc = "returned" =>
        /\ Len(AttemptLines) = attempts
        /\ \A i \in 1..Len(AttemptLines) :
              /\ {"view_id", "start_date", "end_date", "attempt", "error"}
                     \subseteq DOMAIN AttemptLines[i]
              /\ AttemptLines[i].view_id = view_id
              /\ AttemptLines[i].attempt = i
              /\ AttemptLines[i].attempt <= max_retries

\* the order in which main is to issue the four fetches
ClaimedOrder == <<"organic", "total", "organic_filtered", "total_filtered">>

\* C19 (SpecPair): when main reaches the if statement of a property and
\* month, the execute() calls made for it are four runs, one per fetch, in the
\* order organic, total, organic non-blog, non-blog; each run starts with
\* retries = 0 and counts up by one per failure, the next fetch starts only
\* after a success or after the last allowed failure, whatever the earlier
\* fetches returned; so there are between 4 and 4 * max_retries calls in all
C19_FourSequentialFetches ==
    LET c == api_calls.calls
        pos(i) == IndexOf(ClaimedOrder, c[i].kind)
    IN  /\ Len(c) <= 4 * DefaultMaxRetries
        /\ pc = "merge" =>
              /\ Len(c) >= 4
              /\ \A k \in 1..4 : \E i \in 1..Len(c) : c[i].kind = ClaimedOrder[k]
              /\ pos(1) = 1 /\ c[1].retries = 0
              /\ pos(Len(c)) = 4
              /\ \A i \in 1..(Len(c) - 1) :
                    \/ /\ c[i + 1].kind = c[i].kind
                       /\ ~c[i].ok
                       /\ c[i + 1].retries = c[i].retries + 1
                       /\ c[i + 1].retries < DefaultMaxRetries
                    \/ /\ pos(i + 1) = pos(i) + 1
                       /\ c[i + 1].retries = 0
                       /\ c[i].ok \/ c[i].retries = DefaultMaxRetries - 1

\* C19 witness: the organic fetch failed three times and returned None, and
\* each of the three later fetches was still made, nine calls in all
C19_Witness ==
    /\ pc = "merge"
    /\ responses["organic"] = None
    /\ responses["total"] # None
    /\ [i \in 1..Len(api_calls.calls) |-> api_calls.calls[i].kind]
           = <<"organic", "organic", "organic", "total", "organic_filtered",
               "organic_filtered", "total_filtered", "total_filtered", "total_filtered">>
    /\ responses["total_filtered"] = None

====
